---------------------------- MODULE Spec2Model ----------------------------
(***************************************************************************)
(* Model of flow_log_parser.py: main() calls load_lookup_table on a CSV    *)
(* lookup source, then parse_flow_logs on a flow log, and keeps what the   *)
(* two return.  Text is modelled as sequences of one-character strings, so *)
(* that strip(), split(), csv row splitting and int() are computed and not *)
(* assumed.                                                                *)
(***************************************************************************)
EXTENDS Integers, Sequences, FiniteSets, TLC

VARIABLES
    pc,                     \* where main() and the function it is in stand;
                            \* "load_failed" and "parse_failed": the exception
                            \* left that function and main
    lookup_file,            \* rows of the opened lookup source
    row_idx,                \* rows the csv reader has handed out
    lookup,                 \* load_lookup_table's local dict
    main_lookup,            \* main's lookup: None until load_lookup_table returns
    log_file,               \* lines of the opened flow log
    line_number,            \* lines the for loop has consumed
    tag_counts,             \* parse_flow_logs' local Counter
    port_protocol_counts,   \* parse_flow_logs' local Counter
    untagged_count,         \* parse_flow_logs' local int
    main_counts,            \* main's (tag_counts, port_protocol_counts): None until return
    exc                     \* the exception that left the failing function

vars == <<pc, lookup_file, row_idx, lookup, main_lookup, log_file, line_number,
          tag_counts, port_protocol_counts, untagged_count, main_counts, exc>>

-----------------------------------------------------------------------------
(* Bounds of the model *)

\* rows of a lookup source, the header included
MaxRows == 3

\* lines of a flow log
MaxLines == 2

-----------------------------------------------------------------------------
(* Text *)

Whitespace == {" ", "\t", "\n"}

Digits == <<"0", "1", "2", "3", "4", "5", "6", "7", "8", "9">>

DigitSet == {Digits[i] : i \in 1..10}

DigitValue(c) == (CHOOSE i \in 1..10 : Digits[i] = c) - 1

\* str.strip(): leading and trailing whitespace removed
RECURSIVE LStrip(_)
LStrip(s) ==
    IF s # <<>> /\ Head(s) \in Whitespace THEN LStrip(Tail(s)) ELSE s

RECURSIVE RStrip(_)
RStrip(s) ==
    IF s # <<>> /\ s[Len(s)] \in Whitespace
    THEN RStrip(SubSeq(s, 1, Len(s) - 1))
    ELSE s

Strip(s) == RStrip(LStrip(s))

\* str.split() without arguments: the maximal runs of non-whitespace
RECURSIVE SplitFrom(_, _, _, _)
SplitFrom(s, i, cur, acc) ==
    IF i > Len(s)
    THEN IF cur = <<>> THEN acc ELSE Append(acc, cur)
    ELSE IF s[i] \in Whitespace
         THEN SplitFrom(s, i + 1, <<>>, IF cur = <<>> THEN acc ELSE Append(acc, cur))
         ELSE SplitFrom(s, i + 1, Append(cur, s[i]), acc)

Split(s) == SplitFrom(s, 1, <<>>, <<>>)

\* one row of csv.reader (default dialect, no quote characters in the
\* text): a blank line is the empty row, any other line is cut at commas
RECURSIVE CutAtCommas(_, _, _, _)
CutAtCommas(s, i, cur, acc) ==
    IF i > Len(s)
    THEN Append(acc, cur)
    ELSE IF s[i] = ","
         THEN CutAtCommas(s, i + 1, <<>>, Append(acc, cur))
         ELSE CutAtCommas(s, i + 1, Append(cur, s[i]), acc)

CsvRow(line) == IF line = <<>> THEN <<>> ELSE CutAtCommas(line, 1, <<>>, <<>>)

\* int(str): whether the text is a base-10 integer literal. Surrounding
\* whitespace is dropped, one sign is allowed, digits may be grouped by
\* single underscores; everything else raises ValueError
Unsigned(s) == IF s # <<>> /\ Head(s) \in {"+", "-"} THEN Tail(s) ELSE s

IsIntLiteral(s) ==
    LET u == Unsigned(Strip(s))
    IN  /\ u # <<>>
        /\ \A i \in 1..Len(u) : u[i] \in DigitSet \cup {"_"}
        /\ u[1] \in DigitSet
        /\ u[Len(u)] \in DigitSet
        /\ \A i \in 1..(Len(u) - 1) : ~(u[i] = "_" /\ u[i + 1] = "_")

RECURSIVE DigitsValue(_, _)
DigitsValue(u, acc) ==
    IF u = <<>> THEN acc
    ELSE IF Head(u) = "_" THEN DigitsValue(Tail(u), acc)
         ELSE DigitsValue(Tail(u), 10 * acc + DigitValue(Head(u)))

\* int(str) of an integer literal
IntValue(s) ==
    LET t == Strip(s)
        n == DigitsValue(Unsigned(t), 0)
    IN  IF Head(t) = "-" THEN 0 - n ELSE n

-----------------------------------------------------------------------------
(* Constants of the program *)

icmp == <<"i", "c", "m", "p">>
tcp == <<"t", "c", "p">>
udp == <<"u", "d", "p">>

\* the default of PROTOCOL_MAP.get and the value of the ValueError branch
Unknown == <<"U", "n", "k", "n", "o", "w", "n">>

Untagged == <<"U", "n", "t", "a", "g", "g", "e", "d">>

PROTOCOL_MAP == (1 :> icmp) @@ (6 :> tcp) @@ (17 :> udp)

NUM_FIELDS == 14

-----------------------------------------------------------------------------
(* dict, Counter and None *)

EmptyDict == [k \in {} |-> 0]

\* d[k] = v
DictSet(d, k, v) == [x \in DOMAIN d \cup {k} |-> IF x = k THEN v ELSE d[x]]

\* Counter.__getitem__: a missing key reads as 0
CounterGet(c, k) == IF k \in DOMAIN c THEN c[k] ELSE 0

\* c[k] += 1
CounterInc(c, k) == DictSet(c, k, CounterGet(c, k) + 1)

None == <<>>
Some(v) == <<v>>

-----------------------------------------------------------------------------
(* Inputs: the contents a lookup source and a flow log may have *)

SeqsUpTo(S, n) == UNION {[1..k -> S] : k \in 0..n}

c80 == <<"8", "0">>
c53 == <<"5", "3">>
Comma == <<",">>

RowWeb == c80 \o Comma \o tcp \o Comma \o <<"w", "e", "b">>
RowUntagged == c80 \o Comma \o tcp \o Comma \o Untagged
RowSpaced ==
    <<" ">> \o c80 \o <<" ">> \o Comma \o <<" ">> \o tcp \o <<" ">> \o Comma
            \o <<"d", "n", "s", " ">>
RowUnknown == c80 \o Comma \o Unknown \o Comma \o <<"u", "n", "k">>
LowerUnknown == <<"u", "n", "k", "n", "o", "w", "n">>
RowLower == c80 \o Comma \o LowerUnknown \o Comma \o <<"l", "o", "w">>
RowOneField == <<"b", "a", "d">>
RowFourFields == RowWeb \o Comma \o <<"x">>
RowBlank == <<>>

LookupRows ==
    {RowWeb, RowUntagged, RowSpaced, RowUnknown, RowLower,
     RowOneField, RowFourFields, RowBlank}

LookupFiles == SeqsUpTo(LookupRows, MaxRows)

\* fields 0..5, fields 8..13 and fields 8..12 of a flow record
FieldsBefore == <<"2", " ", "1", " ", "e", " ", "s", " ", "d", " ", "9", " ">>
FieldsAfter == <<" ", "1", " ", "1", " ", "1", " ", "1", " ", "A", " ", "O">>
FieldsAfterShort == <<" ", "1", " ", "1", " ", "1", " ", "1", " ", "A">>

Record(dstport, protocol) ==
    FieldsBefore \o dstport \o <<" ">> \o protocol \o FieldsAfter \o <<"\n">>

LineTcp == Record(c80, <<"6">>)
LineUdp == Record(c53, <<"1", "7">>)
LineText == Record(c80, <<"a", "b", "c">>)
LineNegative == Record(c80, <<"-", "1">>)
LineBig == Record(c80, <<"9", "9", "9">>)
LineTabs ==
    <<"\t", " ">> \o FieldsBefore \o c80 \o <<" ", "\t">> \o <<"0", "6">>
                  \o FieldsAfter \o <<" ", "\n">>
LineFifteen ==
    FieldsBefore \o c80 \o <<" ">> \o <<"6">> \o FieldsAfter \o <<" ", "x", "\n">>
LineThirteen ==
    FieldsBefore \o c80 \o <<" ">> \o <<"6">> \o FieldsAfterShort \o <<"\n">>
LineFour == <<"2", " ", "1", " ", "e", " ", "s", "\n">>
LineBlank == <<"\n">>

LogLines ==
    {LineTcp, LineUdp, LineText, LineNegative, LineBig, LineTabs, LineFifteen,
     LineThirteen, LineFour, LineBlank}

LogFiles == SeqsUpTo(LogLines, MaxLines)

-----------------------------------------------------------------------------
(* load_lookup_table *)

\* a variant of RowIsEntry: len(row) >= 3, extra fields ignored
RowIsEntryAtLeast(row) == Len(row) >= 3

\* len(row) == 3
RowIsEntry(row) == Len(row) = 3

\* a variant of LookupInsert: setdefault, the first row of a key is kept
LookupInsertKeepFirst(d, row) ==
    IF <<Strip(row[1]), Strip(row[2])>> \in DOMAIN d
    THEN d
    ELSE DictSet(d, <<Strip(row[1]), Strip(row[2])>>, Strip(row[3]))

\* port, protocol, tag = row; lookup[(port.strip(), protocol.strip())] = tag.strip()
LookupInsert(d, row) ==
    DictSet(d, <<Strip(row[1]), Strip(row[2])>>, Strip(row[3]))

\* with open(lookup_file, "r") as file; reader = csv.reader(file)
OpenLookup ==
    /\ pc = "load_open"
    /\ \E f \in LookupFiles : lookup_file' = f
    /\ pc' = "load_header"
    /\ UNCHANGED <<row_idx, lookup, main_lookup, log_file, line_number, tag_counts,
                   port_protocol_counts, untagged_count, main_counts, exc>>

\* next(reader): the first row is dropped; on an empty source next raises
\* StopIteration, which the except clause prints and raises again
SkipHeader ==
    /\ pc = "load_header"
    /\ IF lookup_file = <<>>
       THEN /\ exc' = "StopIteration"
            /\ pc' = "load_failed"
            /\ row_idx' = row_idx
       ELSE /\ row_idx' = 1
            /\ pc' = "load_rows"
            /\ exc' = exc
    /\ UNCHANGED <<lookup_file, lookup, main_lookup, log_file, line_number, tag_counts,
                   port_protocol_counts, untagged_count, main_counts>>

\* one turn of the for loop over the reader
LoadRow ==
    /\ pc = "load_rows"
    /\ row_idx < Len(lookup_file)
    /\ LET row == CsvRow(lookup_file[row_idx + 1])
       IN  lookup' = IF RowIsEntry(row) THEN LookupInsert(lookup, row) ELSE lookup
    /\ row_idx' = row_idx + 1
    /\ UNCHANGED <<pc, lookup_file, main_lookup, log_file, line_number, tag_counts,
                   port_protocol_counts, untagged_count, main_counts, exc>>

\* return lookup, bound by main to its lookup
LoadReturn ==
    /\ pc = "load_rows"
    /\ row_idx = Len(lookup_file)
    /\ main_lookup' = Some(lookup)
    /\ pc' = "loaded"
    /\ UNCHANGED <<lookup_file, row_idx, lookup, log_file, line_number, tag_counts,
                   port_protocol_counts, untagged_count, main_counts, exc>>

\* a variant of LookupReadError: the except clause prints and does not
\* raise again, so that the mapping built so far is returned
LookupReadErrorSwallowed ==
    /\ pc \in {"load_open", "load_header", "load_rows"}
    /\ exc' = "OSError"
    /\ main_lookup' = Some(lookup)
    /\ pc' = "loaded"
    /\ UNCHANGED <<lookup_file, row_idx, lookup, log_file, line_number,
                   tag_counts, port_protocol_counts, untagged_count, main_counts>>

\* the source fails while it is opened or read: the except clause prints
\* and raises again, and main does not catch it
LookupReadError ==
    /\ pc \in {"load_open", "load_header", "load_rows"}
    /\ exc' = "OSError"
    /\ pc' = "load_failed"
    /\ UNCHANGED <<lookup_file, row_idx, lookup, main_lookup, log_file, line_number,
                   tag_counts, port_protocol_counts, untagged_count, main_counts>>

-----------------------------------------------------------------------------
(* parse_flow_logs *)

\* a variant of ProtocolName: the ValueError branch keeps the raw text
ProtocolNameRawOnError(protocol) ==
    IF IsIntLiteral(protocol)
    THEN IF IntValue(protocol) \in DOMAIN PROTOCOL_MAP
         THEN PROTOCOL_MAP[IntValue(protocol)]
         ELSE Unknown
    ELSE protocol

\* PROTOCOL_MAP.get(int(protocol), "Unknown"), "Unknown" on ValueError
ProtocolName(protocol) ==
    IF IsIntLiteral(protocol)
    THEN IF IntValue(protocol) \in DOMAIN PROTOCOL_MAP
         THEN PROTOCOL_MAP[IntValue(protocol)]
         ELSE Unknown
    ELSE Unknown

\* parts = line.strip().split()
Parts(line) == Split(Strip(line))

\* a variant of IsMalformed: only the fields that are read are required
IsMalformedUsedFieldsOnly(parts) == Len(parts) < 8

\* len(parts) < NUM_FIELDS
IsMalformed(parts) == Len(parts) < NUM_FIELDS

\* key = (dstport, protocol) of parts[6] and parts[7]
KeyOf(parts) == <<Strip(parts[7]), ProtocolName(Strip(parts[8]))>>

\* a variant of TagCountsInc: tag_counts[tag] = 1
TagCountsSetOne(tag) == DictSet(tag_counts, tag, 1)

\* tag_counts[tag] += 1
TagCountsInc(tag) == CounterInc(tag_counts, tag)

\* a variant of PortProtocolCountsInc: the increment stands in the else
\* branch, so that only untagged records are counted
PortProtocolCountsIncUntaggedOnly(key) ==
    IF key \in DOMAIN main_lookup[1]
    THEN port_protocol_counts
    ELSE CounterInc(port_protocol_counts, key)

\* port_protocol_counts[key] += 1
PortProtocolCountsInc(key) == CounterInc(port_protocol_counts, key)

\* a variant of SetUntagged: the key is set only when a record was untagged
SetUntaggedIfAny(counts, n) == IF n > 0 THEN DictSet(counts, Untagged, n) ELSE counts

\* tag_counts["Untagged"] = untagged_count
SetUntagged(counts, n) == DictSet(counts, Untagged, n)

\* the three locals are created; the loader's frame and its file are gone
ParseStart ==
    /\ pc = "loaded"
    /\ tag_counts' = EmptyDict
    /\ port_protocol_counts' = EmptyDict
    /\ untagged_count' = 0
    /\ lookup_file' = <<>>
    /\ row_idx' = 0
    /\ lookup' = EmptyDict
    /\ pc' = "parse_open"
    /\ UNCHANGED <<main_lookup, log_file, line_number, main_counts, exc>>

\* with open(log_file, "r") as file
OpenLog ==
    /\ pc = "parse_open"
    /\ \E f \in LogFiles : log_file' = f
    /\ pc' = "parse_lines"
    /\ UNCHANGED <<lookup_file, row_idx, lookup, main_lookup, line_number, tag_counts,
                   port_protocol_counts, untagged_count, main_counts, exc>>

\* one turn of the for loop over the lines of the file
ParseLine ==
    /\ pc = "parse_lines"
    /\ line_number < Len(log_file)
    /\ LET parts == Parts(log_file[line_number + 1])
       IN  IF parts = <<>> \/ IsMalformed(parts)
           THEN UNCHANGED <<tag_counts, port_protocol_counts, untagged_count>>
           ELSE LET key == KeyOf(parts)
                IN  /\ IF key \in DOMAIN main_lookup[1]
                       THEN /\ tag_counts' = TagCountsInc(main_lookup[1][key])
                            /\ untagged_count' = untagged_count
                       ELSE /\ untagged_count' = untagged_count + 1
                            /\ tag_counts' = tag_counts
                    /\ port_protocol_counts' = PortProtocolCountsInc(key)
    /\ line_number' = line_number + 1
    /\ UNCHANGED <<pc, lookup_file, row_idx, lookup, main_lookup, log_file,
                   main_counts, exc>>

\* after the last line: tag_counts["Untagged"] = untagged_count
PostPass ==
    /\ pc = "parse_lines"
    /\ line_number = Len(log_file)
    /\ tag_counts' = SetUntagged(tag_counts, untagged_count)
    /\ pc' = "parse_return"
    /\ UNCHANGED <<lookup_file, row_idx, lookup, main_lookup, log_file, line_number,
                   port_protocol_counts, untagged_count, main_counts, exc>>

\* return tag_counts, port_protocol_counts, bound by main
ParseReturn ==
    /\ pc = "parse_return"
    /\ main_counts' = Some(<<tag_counts, port_protocol_counts>>)
    /\ pc' = "done"
    /\ UNCHANGED <<lookup_file, row_idx, lookup, main_lookup, log_file, line_number,
                   tag_counts, port_protocol_counts, untagged_count, exc>>

\* the log fails while it is opened or read: the except clause prints and
\* raises again, and main does not catch it
LogReadError ==
    /\ pc \in {"parse_open", "parse_lines"}
    /\ exc' = "OSError"
    /\ pc' = "parse_failed"
    /\ UNCHANGED <<lookup_file, row_idx, lookup, main_lookup, log_file, line_number,
                   tag_counts, port_protocol_counts, untagged_count, main_counts>>

-----------------------------------------------------------------------------
(* main: lookup = load_lookup_table(...); parse_flow_logs(..., lookup) *)

Init ==
    /\ pc = "load_open"
    /\ lookup_file = <<>>
    /\ row_idx = 0
    /\ lookup = EmptyDict
    /\ main_lookup = None
    /\ log_file = <<>>
    /\ line_number = 0
    /\ tag_counts = EmptyDict
    /\ port_protocol_counts = EmptyDict
    /\ untagged_count = 0
    /\ main_counts = None
    /\ exc = "none"

Next ==
    \/ OpenLookup
    \/ SkipHeader
    \/ LoadRow
    \/ LoadReturn
    \/ LookupReadError
    \/ ParseStart
    \/ OpenLog
    \/ ParseLine
    \/ PostPass
    \/ ParseReturn
    \/ LogReadError

Spec == Init /\ [][Next]_vars

-----------------------------------------------------------------------------
(* What the properties are stated with *)

\* the number of whitespace-delimited fields of a line: the places where a
\* run of non-whitespace starts
FieldCount(line) ==
    Cardinality({i \in 1..Len(line) :
                    /\ line[i] \notin Whitespace
                    /\ (i = 1 \/ line[i - 1] \in Whitespace)})

WellFormed(line) == FieldCount(line) >= 14

\* the well-formed records among the first n lines of the log
WellFormedUpTo(n) == {i \in 1..n : WellFormed(log_file[i])}

\* the key of the record on line i of the log
RecordKey(i) == KeyOf(Parts(log_file[i]))

RECURSIVE SumOver(_, _)
SumOver(c, S) ==
    IF S = {} THEN 0
    ELSE LET k == CHOOSE x \in S : TRUE
         IN  c[k] + SumOver(c, S \ {k})

\* sum(c.values())
CounterSum(c) == SumOver(c, DOMAIN c)

\* d is c with exactly the entry of k one higher
OneMoreAt(c, d, k) ==
    /\ DOMAIN d = DOMAIN c \cup {k}
    /\ d[k] = CounterGet(c, k) + 1
    /\ \A x \in DOMAIN c \ {k} : d[x] = c[x]

\* the rows after the first that have exactly 3 fields, their keys and tags
EntryRows == {i \in 2..Len(lookup_file) : Len(CsvRow(lookup_file[i])) = 3}
RowKey(i) ==
    <<Strip(CsvRow(lookup_file[i])[1]), Strip(CsvRow(lookup_file[i])[2])>>
RowTag(i) == Strip(CsvRow(lookup_file[i])[3])

\* what main holds once both functions have returned
ReturnedLookup == main_lookup[1]
ReturnedTagCounts == main_counts[1][1]
ReturnedPortProtocolCounts == main_counts[1][2]

-----------------------------------------------------------------------------
(* Properties *)

\* C1: when parse_flow_logs has returned, the sum of the values of
\* tag_counts equals the sum of the values of port_protocol_counts, and
\* both equal the number of lines of the log with at least 14 fields,
\* for every lookup table, whatever its tags
C1_Conservation ==
    pc = "done" =>
        /\ CounterSum(ReturnedTagCounts) = CounterSum(ReturnedPortProtocolCounts)
        /\ CounterSum(ReturnedPortProtocolCounts)
              = Cardinality(WellFormedUpTo(Len(log_file)))

\* C2: when parse_flow_logs has returned, tag_counts[t] is, for each tag t
\* of the lookup table, the number of well-formed records whose key the
\* table maps to t, and tag_counts["Untagged"] is the number of well-formed
\* records whose key is not in the table
C2_TagResolution ==
    pc = "done" =>
        LET wf == WellFormedUpTo(Len(log_file))
            lk == ReturnedLookup
        IN  /\ \A t \in {lk[k] : k \in DOMAIN lk} :
                  CounterGet(ReturnedTagCounts, t)
                     = Cardinality({i \in wf : /\ RecordKey(i) \in DOMAIN lk
                                               /\ lk[RecordKey(i)] = t})
            /\ CounterGet(ReturnedTagCounts, Untagged)
                  = Cardinality({i \in wf : RecordKey(i) \notin DOMAIN lk})

\* C3: in the mapping load_lookup_table returns, the tag of a key is the
\* (trimmed) tag of the last 3-field row after the header that has the key
C3_LastWriteWins ==
    pc = "loaded" =>
        \A i \in EntryRows :
            (\A j \in EntryRows : RowKey(j) = RowKey(i) => j <= i)
                => /\ RowKey(i) \in DOMAIN ReturnedLookup
                   /\ ReturnedLookup[RowKey(i)] = RowTag(i)

\* load_lookup_table has returned from a source in which two 3-field rows
\* after the header share a key and differ in their tag
C3_Witness ==
    /\ pc = "loaded"
    /\ \E i, j \in EntryRows :
          i < j /\ RowKey(i) = RowKey(j) /\ RowTag(i) # RowTag(j)

\* C5: the tag_counts parse_flow_logs returns always has the key "Untagged",
\* with a value >= 0; from an empty log it has that entry alone, with value
\* 0, and port_protocol_counts is empty
C5_UntaggedPresence ==
    pc = "done" =>
        /\ Untagged \in DOMAIN ReturnedTagCounts
        /\ ReturnedTagCounts[Untagged] >= 0
        /\ log_file = <<>> =>
              /\ DOMAIN ReturnedTagCounts = {Untagged}
              /\ ReturnedTagCounts[Untagged] = 0
              /\ DOMAIN ReturnedPortProtocolCounts = {}

\* parse_flow_logs has returned from a log all of whose lines are records
\* the lookup table tags, with a tag other than "Untagged"
C5_Witness ==
    /\ pc = "done"
    /\ log_file # <<>>
    /\ \A i \in 1..Len(log_file) :
          /\ WellFormed(log_file[i])
          /\ RecordKey(i) \in DOMAIN ReturnedLookup
          /\ ReturnedLookup[RecordKey(i)] # Untagged

\* C7: when parse_flow_logs has returned, port_protocol_counts has an entry
\* for exactly the keys of the well-formed records, in the lookup table or
\* not, and the entry of a key is the number of well-formed records with it
C7_PortProtocolCounts ==
    pc = "done" =>
        LET wf == WellFormedUpTo(Len(log_file))
        IN  /\ DOMAIN ReturnedPortProtocolCounts = {RecordKey(i) : i \in wf}
            /\ \A k \in DOMAIN ReturnedPortProtocolCounts :
                  ReturnedPortProtocolCounts[k]
                     = Cardinality({i \in wf : RecordKey(i) = k})

\* parse_flow_logs has returned counts for a key the lookup table has and
\* for a key it has not
C7_Witness ==
    /\ pc = "done"
    /\ \E k1, k2 \in DOMAIN ReturnedPortProtocolCounts :
          k1 \in DOMAIN ReturnedLookup /\ k2 \notin DOMAIN ReturnedLookup

\* a protocol field that is non-numeric, negative, or a number not in {1, 6, 17}
NoKnownProtocol(protocol) ==
    \/ ~IsIntLiteral(protocol)
    \/ IntValue(protocol) < 0
    \/ IntValue(protocol) \notin {1, 6, 17}

\* the loop has just consumed a well-formed record with such a protocol field
UnknownRecordStep ==
    /\ pc = "parse_lines"
    /\ line_number' = line_number + 1
    /\ WellFormed(log_file[line_number + 1])
    /\ NoKnownProtocol(Parts(log_file[line_number + 1])[8])

\* such a record is counted with the protocol name `name`: under the key
\* (port, name) in port_protocol_counts, under the lookup table's tag of
\* that key if it has one, and in the untagged count if it has none
CountedWithProtocol(name) ==
    LET key == <<Parts(log_file[line_number + 1])[7], name>>
    IN  /\ OneMoreAt(port_protocol_counts, port_protocol_counts', key)
        /\ IF key \in DOMAIN ReturnedLookup
           THEN /\ OneMoreAt(tag_counts, tag_counts', ReturnedLookup[key])
                /\ untagged_count' = untagged_count
           ELSE /\ untagged_count' = untagged_count + 1
                /\ tag_counts' = tag_counts

MalformedLineStep ==
    /\ pc = "parse_lines"
    /\ line_number' = line_number + 1
    /\ FieldCount(log_file[line_number + 1]) < 14

CountersKept == UNCHANGED <<tag_counts, port_protocol_counts, untagged_count>>

\* C6: consuming a blank line or a line with fewer than 14 fields leaves
\* tag_counts, port_protocol_counts and the untagged count as they were,
\* and the loop goes on
C6_MalformedSkip ==
    [][MalformedLineStep => CountersKept /\ pc' = "parse_lines"]_vars

\* the loop has consumed a malformed line that is not blank, after a
\* well-formed record it has counted
C6_Witness ==
    /\ pc = "parse_lines"
    /\ line_number = 2
    /\ WellFormed(log_file[1])
    /\ FieldCount(log_file[2]) \in 1..13
    /\ CounterSum(port_protocol_counts) = 1

\* the row the reader has just handed out does not have 3 fields
MalformedRowStep ==
    /\ pc = "load_rows"
    /\ row_idx' = row_idx + 1
    /\ Len(CsvRow(lookup_file[row_idx + 1])) # 3

\* C8: the mapping load_lookup_table returns holds exactly the entries of
\* the 3-field rows after the first row; a row with another number of
\* fields changes nothing in the mapping and does not end the load
C8_RowFiltering ==
    /\ [](pc = "loaded" =>
            /\ DOMAIN ReturnedLookup = {RowKey(i) : i \in EntryRows}
            /\ \A k \in DOMAIN ReturnedLookup :
                  \E i \in EntryRows :
                      RowKey(i) = k /\ RowTag(i) = ReturnedLookup[k])
    /\ [][MalformedRowStep => lookup' = lookup /\ pc' = "load_rows"]_vars

\* load_lookup_table has returned a non-empty mapping from a source whose
\* first row is a 3-field row that is not in the mapping, and which has a
\* row with another number of fields before its last row
C8_Witness ==
    /\ pc = "loaded"
    /\ ReturnedLookup # EmptyDict
    /\ Len(CsvRow(lookup_file[1])) = 3
    /\ RowKey(1) \notin DOMAIN ReturnedLookup
    /\ \E i \in 2..(Len(lookup_file) - 1) : Len(CsvRow(lookup_file[i])) # 3

\* an exception has left load_lookup_table or parse_flow_logs, and main
Failed == pc \in {"load_failed", "parse_failed"}

\* the reader has just handed out a row, or the loop consumed a line
ReadStep == row_idx' = row_idx + 1 \/ line_number' = line_number + 1

\* C9: a stream failure, before the first row or line or after any number
\* of them, ends the function in an exception that reaches the caller,
\* which gets no lookup table and no counters and goes no further; no row
\* and no line, malformed or not, ends a function in an exception (the one
\* exception without a stream failure is StopIteration from a lookup source
\* without any row)
C9_FatalStreamErrors ==
    /\ [](exc = "OSError" => Failed)
    /\ [](pc = "load_failed" =>
            /\ main_lookup = None
            /\ main_counts = None
            /\ exc = "OSError" \/ (exc = "StopIteration" /\ lookup_file = <<>>))
    /\ [](pc = "parse_failed" => main_counts = None /\ exc = "OSError")
    /\ [][Failed => UNCHANGED vars]_vars
    /\ [][ReadStep => ~Failed']_vars

\* the lookup source failed after two rows were read, one of them an entry
\* already in the local mapping, and main has no lookup table
C9_Witness ==
    /\ pc = "load_failed"
    /\ exc = "OSError"
    /\ row_idx >= 2
    /\ lookup # EmptyDict
    /\ main_lookup = None

RecordStep ==
    /\ pc = "parse_lines"
    /\ line_number' = line_number + 1
    /\ WellFormed(log_file[line_number + 1])

\* exactly one entry of port_protocol_counts is one higher, and so is
\* either exactly one entry of tag_counts or the untagged count
CountedOnce ==
    /\ \E k \in DOMAIN port_protocol_counts' :
          OneMoreAt(port_protocol_counts, port_protocol_counts', k)
    /\ \/ /\ untagged_count' = untagged_count
          /\ \E t \in DOMAIN tag_counts' : OneMoreAt(tag_counts, tag_counts', t)
       \/ /\ untagged_count' = untagged_count + 1
          /\ tag_counts' = tag_counts

=============================================================================
